---- MODULE Spec2Model ----
(***************************************************************************)
(* gobank: a JSON REST API over a Postgres table of accounts.              *)
(*                                                                         *)
(* The state is the accounts table, the server clock, the tokens the       *)
(* server has signed, the protected-route requests that passed the JWT     *)
(* middleware and whose handler has not run yet (net/http serves every     *)
(* request on its own goroutine, so other requests interleave between the  *)
(* middleware's store access and the handler's), the transfer requests     *)
(* whose handler has not run its statement yet, the sum of the amounts     *)
(* that transfers answered with 200 credited to each stored number, and    *)
(* the response the last step put on the wire.                             *)
(***************************************************************************)
EXTENDS Integers, Sequences, FiniteSets, Bags, TLC

VARIABLES accounts, nextID, usedNumbers, now, clockSteps, issued, inflight,
          transfers, credited, out

vars == <<accounts, nextID, usedNumbers, now, clockSteps, issued, inflight,
          transfers, credited, out>>

(***************************************************************************)
(* Bounds of the model.                                                    *)
(***************************************************************************)
MaxAccounts == 2
MaxTokens == 1
MaxClockSteps == 2
MaxBalance == 1
MaxInflight == 2
TicksPerSecond == 2

(***************************************************************************)
(* Program constants.                                                      *)
(***************************************************************************)
StatusOK == 200
StatusCreated == 201
StatusNoContent == 204
StatusBadRequest == 400
StatusForbidden == 403
StatusNotFound == 404
SecondsPerMinute == 60
AmountScale == 2

\* time.Minute, in clock ticks
Minute == SecondsPerMinute * TicksPerSecond

\* os.Getenv("JWT_SECRET")
JWT_SECRET == "server-secret"

Numbers == {"n1", "n2"}
Passwords == {"pw1", "pw2"}
LongPassword == "pw-longer-than-72-bytes"
FirstNames == {"Anna"}
LastNames == {"Adler"}
\* amounts in units of 1/AmountScale: -1, a fraction, 1
Amounts == {-AmountScale, 1, AmountScale}
ClockDeltas == {1, Minute - 1}

NoErr == "<nil>"
NoToken == [kind |-> "none"]
NoAccount == [id |-> 0]
NoRequest == [method |-> "none"]

(***************************************************************************)
(* types.go                                                                *)
(***************************************************************************)
\* bcrypt.GenerateFromPassword: fails on passwords longer than 72 bytes
GenerateFromPassword(pw) ==
    IF pw = LongPassword
    THEN [hash |-> "", err |-> "bcrypt: password length exceeds 72 bytes"]
    ELSE [hash |-> "$2a$10$" \o pw, err |-> NoErr]

ValidatePassword(a, pw) ==
    pw # LongPassword /\ a.encrypted_password = "$2a$10$" \o pw

\* NewString with a generator that repeats itself
NewStringRepeating(used) == Numbers

\* uuid.NewString(): a random version-4 UUID, taken as never repeating
NewString(used) == Numbers \ used

\* the Account NewAccount builds with number n at time t: ID and Balance are
\* left at their zero values
NewAccount(firstName, lastName, password, n, t) ==
    LET h == GenerateFromPassword(password)
    IN  IF h.err # NoErr
        THEN [acc |-> NoAccount, err |-> h.err]
        ELSE [acc |-> [id |-> 0, first_name |-> firstName, last_name |-> lastName,
                       number |-> n, encrypted_password |-> h.hash,
                       balance |-> 0, created_at |-> t],
              err |-> NoErr]

\* MarshalAccount with EncryptedPassword tagged like the other fields
MarshalAccountTagged(a) ==
    [id |-> a.id, first_name |-> a.first_name, last_name |-> a.last_name,
     number |-> a.number, encrypted_password |-> a.encrypted_password,
     balance |-> a.balance, created_at |-> a.created_at]

\* encoding/json of an Account: the field tagged json:"-" is left out
MarshalAccount(a) ==
    [id |-> a.id, first_name |-> a.first_name, last_name |-> a.last_name,
     number |-> a.number, balance |-> a.balance, created_at |-> a.created_at]

(***************************************************************************)
(* The store (PostgresStore).  db is the accounts table, a set of rows; ok *)
(* says whether the database executes the statement (FALSE: the            *)
(* connection is lost, the statement is refused).  Every operation yields  *)
(* the table afterwards, its result, its error, and whether it panicked.   *)
(***************************************************************************)
Row(db, id) == CHOOSE a \in db : a.id = id

MinId(rows) == CHOOSE i \in {a.id : a \in rows} : \A a \in rows : i <= a.id

GetAccounts(db, ok) ==
    IF ~ok
    THEN [db |-> db, rows |-> {}, err |-> "pq: query failed", panicked |-> FALSE]
    ELSE [db |-> db, rows |-> db, err |-> NoErr, panicked |-> FALSE]

\* GetAccountByID with the where clause lost: any row answers
GetAccountByIDAnyRow(db, id, ok) ==
    IF ~ok
    THEN [db |-> db, acc |-> NoAccount, err |-> "pq: query failed", panicked |-> FALSE]
    ELSE IF db # {}
    THEN [db |-> db, acc |-> Row(db, MinId(db)), err |-> NoErr, panicked |-> FALSE]
    ELSE [db |-> db, acc |-> NoAccount,
          err |-> "account " \o ToString(id) \o " not found", panicked |-> FALSE]

GetAccountByID(db, id, ok) ==
    IF ~ok
    THEN [db |-> db, acc |-> NoAccount, err |-> "pq: query failed", panicked |-> FALSE]
    ELSE IF \E a \in db : a.id = id
    THEN [db |-> db, acc |-> Row(db, id), err |-> NoErr, panicked |-> FALSE]
    ELSE [db |-> db, acc |-> NoAccount,
          err |-> "account " \o ToString(id) \o " not found", panicked |-> FALSE]

GetAccountByNumber(db, number, ok) ==
    IF ~ok
    THEN [db |-> db, acc |-> NoAccount, err |-> "pq: query failed", panicked |-> FALSE]
    ELSE IF \E a \in db : a.number = number
    THEN [db |-> db,
          acc |-> Row(db, MinId({a \in db : a.number = number})),
          err |-> NoErr, panicked |-> FALSE]
    ELSE [db |-> db, acc |-> NoAccount,
          err |-> "account " \o number \o " not found", panicked |-> FALSE]

\* the insert names no id: the serial column assigns serial
CreateAccount(db, acc, serial, ok) ==
    IF ~ok
    THEN [db |-> db, err |-> "pq: query failed", panicked |-> FALSE]
    ELSE [db |-> db \cup {[acc EXCEPT !.id = serial]}, err |-> NoErr,
          panicked |-> FALSE]

\* rows is nil when the query fails, and rows.Next() on it panics
DeleteAccount(db, id, ok) ==
    IF ~ok
    THEN [db |-> db, id |-> 0, err |-> "pq: query failed", panicked |-> TRUE]
    ELSE IF \E a \in db : a.id = id
    THEN [db |-> {a \in db : a.id # id}, id |-> id, err |-> NoErr,
          panicked |-> FALSE]
    ELSE [db |-> db, id |-> 0, err |-> NoErr, panicked |-> FALSE]

\* the float64 amount reaches Postgres as decimal text for the int4
\* parameter of "balance + $1": a fractional amount is refused
IntegerText(amount) == amount % AmountScale = 0

\* set balance = <the balance the account was created with> + $1: what a
\* balance read in the application before the update would write when
\* another transfer ran in between
TransferLostUpdate(db, accountNumber, amount, ok) ==
    LET hit == {a \in db : a.number = accountNumber}
    IN  IF ~ok \/ ~IntegerText(amount) \/ hit = {}
        THEN [db |-> db, id |-> 0, err |-> NoErr, panicked |-> FALSE]
        ELSE [db |-> {IF a \in hit
                      THEN [a EXCEPT !.balance = amount \div AmountScale]
                      ELSE a : a \in db},
              id |-> MinId(hit), err |-> NoErr, panicked |-> FALSE]

\* one statement, update ... set balance = balance + $1 where number = $2,
\* which the database runs as a whole on the rows as they are
Transfer(db, accountNumber, amount, ok) ==
    IF ~ok
    THEN [db |-> db, id |-> 0, err |-> "pq: query failed", panicked |-> TRUE]
    ELSE IF ~IntegerText(amount)
    THEN [db |-> db, id |-> 0, err |-> "pq: invalid input syntax for type integer",
          panicked |-> TRUE]
    ELSE LET hit == {a \in db : a.number = accountNumber}
         IN  IF hit = {}
             THEN [db |-> db, id |-> 0, err |-> NoErr, panicked |-> FALSE]
             ELSE [db |-> {IF a \in hit
                           THEN [a EXCEPT !.balance = @ + amount \div AmountScale]
                           ELSE a : a \in db},
                   id |-> MinId(hit), err |-> NoErr, panicked |-> FALSE]

(***************************************************************************)
(* The HTTP layer.  w is the http.ResponseWriter: whether the header went  *)
(* out, the status, and the JSON values written to the body.               *)
(***************************************************************************)
NewWriter == [wroteHeader |-> FALSE, status |-> 0, body |-> <<>>]

ApiError(msg) == [error |-> msg]

\* net/http: responses with status 1xx, 204 and 304 carry no body
bodyAllowedForStatus(status) ==
    ~(status \in 100 .. 199 \/ status = 204 \/ status = 304)

\* a second WriteHeader is ignored; Encode's Write fails when the status
\* allows no body
WriteJSON(w, status, v) ==
    LET w1 == IF w.wroteHeader THEN w
              ELSE [w EXCEPT !.wroteHeader = TRUE, !.status = status]
    IN  IF bodyAllowedForStatus(w1.status)
        THEN [w |-> [w1 EXCEPT !.body = Append(@, v)], err |-> NoErr,
              panicked |-> FALSE]
        ELSE [w |-> w1,
              err |-> "http: request method or response status code does not allow body",
              panicked |-> FALSE]

\* permissionDenied telling the client that the account is missing
permissionDeniedNotFound(w) ==
    WriteJSON(w, StatusNotFound, ApiError("account not found")).w

permissionDenied(w) ==
    WriteJSON(w, StatusForbidden, ApiError("permission denied")).w

\* r is what the wrapped apiFunc left: the writer, its error, a panic
makeHandleFunc(r) ==
    IF r.panicked THEN [w |-> NewWriter, panicked |-> TRUE]
    ELSE IF r.err # NoErr
    THEN [w |-> WriteJSON(r.w, StatusBadRequest, ApiError(r.err)).w,
          panicked |-> FALSE]
    ELSE [w |-> r.w, panicked |-> FALSE]

\* strconv.Atoi of the path variable
getID(idStr) ==
    IF \E n \in 0 .. MaxAccounts + 1 : ToString(n) = idStr
    THEN [id |-> CHOOSE n \in 0 .. MaxAccounts + 1 : ToString(n) = idStr,
          err |-> NoErr]
    ELSE [id |-> 0, err |-> "invalid id given " \o idStr]

(***************************************************************************)
(* Tokens.  A JWT is its header's algorithm, its claims and its signature; *)
(* an HMAC signature is determined by the key and by what it signs.        *)
(***************************************************************************)
\* time.Time.Unix(): whole seconds, the fraction dropped
Unix(t) == t \div TicksPerSecond

Sign(key, alg, accountNumber, exp) ==
    [key |-> key, alg |-> alg, accountNumber |-> accountNumber, exp |-> exp]

\* createJWT without the minute added to the current time
createJWTNoMinute(account, t) ==
    LET exp == Unix(t)
    IN  [kind |-> "jwt", alg |-> "HS256", accountNumber |-> account.number,
         exp |-> exp, sig |-> Sign(JWT_SECRET, "HS256", account.number, exp)]

createJWT(account, t) ==
    LET exp == Unix(t + Minute)
    IN  [kind |-> "jwt", alg |-> "HS256", accountNumber |-> account.number,
         exp |-> exp, sig |-> Sign(JWT_SECRET, "HS256", account.number, exp)]

\* validateJWT with a parser that does not verify the signature
validateJWTUnverified(tok, t) ==
    IF tok.kind # "jwt"
    THEN [valid |-> FALSE, err |-> "token contains an invalid number of segments"]
    ELSE IF ~(Unix(t) < tok.exp)
    THEN [valid |-> FALSE, err |-> "Token is expired"]
    ELSE [valid |-> TRUE, err |-> NoErr]

\* jwt.Parse with the key function of validateJWT, at time t: the token
\* must have three segments, an HMAC algorithm, an exp claim later than
\* the current second, and the signature of its header and claims under
\* JWT_SECRET
validateJWT(tok, t) ==
    IF tok.kind # "jwt"
    THEN [valid |-> FALSE, err |-> "token contains an invalid number of segments"]
    ELSE IF tok.alg # "HS256"
    THEN [valid |-> FALSE, err |-> "unexpected signing method"]
    ELSE IF ~(Unix(t) < tok.exp)
    THEN [valid |-> FALSE, err |-> "Token is expired"]
    ELSE IF tok.sig # Sign(JWT_SECRET, tok.alg, tok.accountNumber, tok.exp)
    THEN [valid |-> FALSE, err |-> "signature is invalid"]
    ELSE [valid |-> TRUE, err |-> NoErr]

\* the middleware in front of /accounts/{id}: r is the request (method,
\* path id, x-jwt-token header), t the time, ok whether the store's query
\* runs.  admit says that the wrapped handler is called.
withJWTAuth(db, r, t, ok) ==
    LET v == validateJWT(r.token, t)
        p == getID(r.id)
        g == GetAccountByID(db, p.id, ok)
    IN  IF v.err # NoErr \/ ~v.valid
        THEN [admit |-> FALSE, cause |-> v.err,
              w |-> WriteJSON(NewWriter, StatusForbidden, ApiError("invalid token")).w]
        ELSE IF p.err # NoErr
        THEN [admit |-> FALSE, cause |-> "invalid id",
              w |-> permissionDenied(NewWriter)]
        ELSE IF g.err # NoErr
        THEN [admit |-> FALSE,
              cause |-> IF ok THEN "account not found" ELSE "query failed",
              w |-> permissionDenied(NewWriter)]
        ELSE IF g.acc.number # r.token.accountNumber
        THEN [admit |-> FALSE, cause |-> "number mismatch",
              w |-> permissionDenied(NewWriter)]
        ELSE [admit |-> TRUE, cause |-> NoErr, w |-> NewWriter]

(***************************************************************************)
(* The handlers, as apiFuncs: each yields the table afterwards, the        *)
(* writer, the error it returns and whether it panicked.                   *)
(***************************************************************************)
Ret(db, r) == [db |-> db, w |-> r.w, err |-> r.err, panicked |-> FALSE]

Fail(db, err) == [db |-> db, w |-> NewWriter, err |-> err, panicked |-> FALSE]

\* err is the query's error, which the panic keeps from the caller
Panic(db, err) == [db |-> db, w |-> NewWriter, err |-> err, panicked |-> TRUE]

DecodeErr == "invalid character in request body"

\* t is the time of the request
handleLogin(db, req, t, ok) ==
    LET g == GetAccountByNumber(db, req.number, ok)
    IN  IF ~req.decodes THEN Fail(db, DecodeErr)
        ELSE IF g.err # NoErr THEN Fail(db, g.err)
        ELSE IF ~ValidatePassword(g.acc, req.password)
        THEN Fail(db, "not authenticated")
        ELSE Ret(db, WriteJSON(NewWriter, StatusOK,
                               [number |-> g.acc.number,
                                token |-> createJWT(g.acc, t)]))

handleGetAccounts(db, ok) ==
    LET g == GetAccounts(db, ok)
    IN  IF g.err # NoErr THEN Fail(db, g.err)
        ELSE Ret(db, WriteJSON(NewWriter, StatusOK,
                               [accounts |-> {MarshalAccount(a) : a \in g.rows}]))

\* n is the number uuid.NewString() returns, t the time, serial the next
\* value of the id column
handleCreateAccount(db, req, n, t, serial, ok) ==
    LET a == NewAccount(req.first_name, req.last_name, req.password, n, t)
        c == CreateAccount(db, a.acc, serial, ok)
    IN  IF ~req.decodes THEN Fail(db, DecodeErr)
        ELSE IF a.err # NoErr THEN Fail(db, a.err)
        ELSE IF c.err # NoErr THEN Fail(db, c.err)
        ELSE Ret(c.db, WriteJSON(NewWriter, StatusCreated, MarshalAccount(a.acc)))

handleTrasfer(db, req, ok) ==
    LET x == Transfer(db, req.to_account, req.amount, ok)
    IN  IF ~req.decodes THEN Fail(db, DecodeErr)
        ELSE IF x.panicked THEN Panic(db, x.err)
        ELSE IF x.err # NoErr
        THEN Ret(x.db, WriteJSON(NewWriter, StatusBadRequest, ApiError(x.err)))
        ELSE IF x.id = 0
        THEN Ret(x.db, WriteJSON(NewWriter, StatusNotFound,
                   ApiError("account not " \o req.to_account \o " not found")))
        ELSE Ret(x.db, WriteJSON(NewWriter, StatusOK,
                   [transfered |-> req.amount, to |-> req.to_account]))

handleAccountById(db, r, ok) ==
    LET p == getID(r.id)
        g == GetAccountByID(db, p.id, ok)
        d == DeleteAccount(db, p.id, ok)
    IN  IF p.err # NoErr THEN Fail(db, p.err)
        ELSE IF r.method = "GET"
        THEN IF g.err # NoErr THEN Fail(db, g.err)
             ELSE Ret(db, WriteJSON(NewWriter, StatusOK, MarshalAccount(g.acc)))
        ELSE IF r.method = "DELETE"
        THEN IF d.panicked THEN Panic(db, d.err)
             ELSE IF d.err # NoErr
             THEN Ret(d.db, WriteJSON(NewWriter, StatusBadRequest, ApiError(d.err)))
             ELSE IF d.id = 0
             THEN Ret(d.db, WriteJSON(NewWriter, StatusNotFound,
                        ApiError("account " \o ToString(d.id) \o " not found")))
             ELSE Ret(d.db, WriteJSON(NewWriter, StatusNoContent,
                                      [deleted |-> d.id]))
        ELSE Fail(db, "method not allowed " \o r.method)

(***************************************************************************)
(* The server.                                                             *)
(***************************************************************************)
NoOut ==
    [stage |-> "none", op |-> "none", req |-> NoRequest, status |-> 0,
     body |-> <<>>, panicked |-> FALSE, cause |-> NoErr]

\* what the client of the request gets: m is the writer the request's
\* goroutine leaves, or its panic (net/http then drops the connection
\* without a response); cause is the error that ended the request
Respond(stage, op, req, m, cause) ==
    [stage |-> stage, op |-> op, req |-> req, status |-> m.w.status,
     body |-> m.w.body, panicked |-> m.panicked, cause |-> cause]

\* a request body that is no JSON of the expected shape
BadBody == [decodes |-> FALSE]

LoginBodies ==
    {BadBody} \cup
    {[decodes |-> TRUE, number |-> n, password |-> p] :
        n \in Numbers, p \in Passwords}

CreateBodies ==
    {BadBody} \cup
    {[decodes |-> TRUE, first_name |-> f, last_name |-> l, password |-> p] :
        f \in FirstNames, l \in LastNames, p \in {"pw1", LongPassword}}

TransferBodies ==
    {BadBody} \cup
    {[decodes |-> TRUE, to_account |-> n, amount |-> a] :
        n \in Numbers, a \in Amounts}

\* an exp claim far in the future
FarFuture == Unix((MaxClockSteps + 1) * Minute)

\* the tokens createJWT has signed
Signed == {i.token : i \in issued}

OtherNumber(n) == CHOOSE o \in Numbers : o # n

\* the x-jwt-token headers a client can send: the tokens the server issued,
\* those with a claim changed under the old signature, tokens signed with
\* another key or naming no HMAC algorithm, and text that is no JWT
Headers ==
    Signed
    \cup {[t EXCEPT !.accountNumber = OtherNumber(@)] : t \in Signed}
    \cup {[t EXCEPT !.exp = FarFuture] : t \in Signed}
    \cup {[kind |-> "jwt", alg |-> "HS256", accountNumber |-> n, exp |-> FarFuture,
           sig |-> Sign("client-key", "HS256", n, FarFuture)] : n \in Numbers}
    \cup {[kind |-> "jwt", alg |-> "none", accountNumber |-> "n1", exp |-> FarFuture,
           sig |-> Sign("", "none", "n1", FarFuture)]}
    \cup {[kind |-> "malformed"]}

\* whether the database runs the query: only a request that gets as far as
\* the query can meet a failure of it
QueryRuns(reached) == IF reached THEN BOOLEAN ELSE {TRUE}

PathIds == {ToString(n) : n \in 1 .. MaxAccounts + 1} \cup {"abc"}

\* the server starts on an empty accounts table
Init ==
    /\ accounts = {}
    /\ nextID = 1
    /\ usedNumbers = {}
    /\ now = 0
    /\ clockSteps = 0
    /\ issued = {}
    /\ inflight = EmptyBag
    /\ transfers = EmptyBag
    /\ credited = [n \in Numbers |-> 0]
    /\ out = NoOut

\* the table that creating accounts n1 and n2 leaves
Populated ==
    LET a1 == NewAccount("Anna", "Adler", "pw1", "n1", 0).acc
        a2 == NewAccount("Anna", "Adler", "pw1", "n2", 0).acc
    IN  CreateAccount(CreateAccount({}, a1, 1, TRUE).db, a2, 2, TRUE).db

\* the server starts on a table that an earlier run has filled
InitPopulated ==
    /\ accounts = Populated
    /\ nextID = 3
    /\ usedNumbers = {"n1", "n2"}
    /\ now = 0
    /\ clockSteps = 0
    /\ issued = {}
    /\ inflight = EmptyBag
    /\ transfers = EmptyBag
    /\ credited = [n \in Numbers |-> 0]
    /\ out = NoOut

\* the response on the wire reaches its client.  out holds one response at
\* a time, and the server's next step is taken once it is delivered; the
\* step changes nothing in the store, so every interleaving of the store's
\* accesses is still a behaviour
Deliver ==
    /\ out # NoOut
    /\ out' = NoOut
    /\ UNCHANGED <<accounts, nextID, usedNumbers, now, clockSteps, issued, inflight,
                 transfers, credited>>

\* time passes
Tick ==
    /\ out = NoOut
    /\ clockSteps < MaxClockSteps
    /\ \E d \in ClockDeltas : now' = now + d
    /\ clockSteps' = clockSteps + 1
    /\ UNCHANGED <<accounts, nextID, usedNumbers, issued, inflight, transfers,
                 credited, out>>

\* POST /login
Login ==
    \E req \in LoginBodies, ok \in BOOLEAN :
        LET h == handleLogin(accounts, req, now, ok)
            m == makeHandleFunc(h)
        IN  /\ out = NoOut
            /\ issued' = IF m.w.status = StatusOK
                         THEN issued \cup {[token |-> m.w.body[1].token, at |-> now]}
                         ELSE issued
            /\ Cardinality(issued') <= MaxTokens
            /\ out' = Respond("handler", "login", req, m, h.err)
            /\ UNCHANGED <<accounts, nextID, usedNumbers, now, clockSteps, inflight,
                           transfers, credited>>

\* GET /accounts
ListAccounts ==
    \E ok \in BOOLEAN :
        LET h == handleGetAccounts(accounts, ok)
            m == makeHandleFunc(h)
        IN  /\ out = NoOut
            /\ out' = Respond("handler", "list", [method |-> "GET"], m, h.err)
            /\ UNCHANGED <<accounts, nextID, usedNumbers, now, clockSteps, issued,
                           inflight, transfers, credited>>

\* POST /accounts
CreateAccountRequest ==
    \E req \in CreateBodies, ok \in BOOLEAN, n \in NewString(usedNumbers) :
        LET h == handleCreateAccount(accounts, req, n, now, nextID, ok)
            m == makeHandleFunc(h)
            built == req.decodes /\ req.password # LongPassword
        IN  /\ out = NoOut
            /\ nextID <= MaxAccounts
            /\ accounts' = h.db
            /\ nextID' = IF h.db # accounts THEN nextID + 1 ELSE nextID
            /\ usedNumbers' = IF built THEN usedNumbers \cup {n} ELSE usedNumbers
            /\ out' = Respond("handler", "create", req, m, h.err)
            /\ UNCHANGED <<now, clockSteps, issued, inflight, transfers, credited>>

\* the tally of a deleted account goes with its row
Kept(c, db) ==
    [n \in Numbers |-> IF \E a \in db : a.number = n THEN c[n] ELSE 0]

\* the amounts answered 200 so far, by number
Credit(c, req, m) ==
    IF ~m.panicked /\ m.w.status = StatusOK
    THEN [c EXCEPT ![req.to_account] = @ + req.amount]
    ELSE c

\* POST /transfer
TransferRequest ==
    \E req \in TransferBodies, ok \in BOOLEAN :
        LET h == handleTrasfer(accounts, req, ok)
            m == makeHandleFunc(h)
        IN  /\ out = NoOut
            /\ \A a \in h.db : a.balance \in -MaxBalance .. MaxBalance
            /\ accounts' = h.db
            /\ credited' = Credit(credited, req, m)
            /\ out' = Respond("handler", "transfer", req, m, h.err)
            /\ UNCHANGED <<nextID, usedNumbers, now, clockSteps, issued, inflight,
                           transfers>>

\* POST /transfer arrives: the handler decodes the body; its one statement
\* runs in TransferExec, after or before those of the other requests
TransferArrive ==
    \E req \in TransferBodies :
        LET h == handleTrasfer(accounts, req, TRUE)
            m == makeHandleFunc(h)
        IN  /\ out = NoOut
            /\ BagCardinality(transfers) < MaxInflight
            /\ transfers' = IF req.decodes THEN transfers (+) SetToBag({req})
                            ELSE transfers
            /\ out' = IF req.decodes THEN NoOut
                      ELSE Respond("handler", "transfer", req, m, h.err)
            /\ UNCHANGED <<accounts, nextID, usedNumbers, now, clockSteps, issued,
                           inflight, credited>>

\* the statement of a transfer in flight and the handler's response
TransferExec ==
    \E req \in BagToSet(transfers), ok \in BOOLEAN :
        LET h == handleTrasfer(accounts, req, ok)
            m == makeHandleFunc(h)
        IN  /\ out = NoOut
            /\ \A a \in h.db : a.balance \in -MaxBalance .. MaxBalance
            /\ accounts' = h.db
            /\ transfers' = transfers (-) SetToBag({req})
            /\ credited' = Credit(credited, req, m)
            /\ out' = Respond("handler", "transfer", req, m, h.err)
            /\ UNCHANGED <<nextID, usedNumbers, now, clockSteps, issued, inflight>>

\* the requests to /accounts/{id} a client can send: any method, path id
\* and header; the requests whose token the middleware refuses, which are
\* answered before the path is read, are sent to one path
ProtectedRequests ==
    {r \in [method : {"GET", "DELETE"}, id : PathIds, token : Headers] :
        validateJWT(r.token, now).valid \/ r.id = "1"}

\* GET or DELETE /accounts/{id} arrives: the middleware answers it, or
\* calls the handler, which runs in RunHandler
Authorize ==
    \E r \in ProtectedRequests :
      \E ok \in QueryRuns(validateJWT(r.token, now).valid /\ getID(r.id).err = NoErr) :
        LET a == withJWTAuth(accounts, r, now, ok)
            method == r.method
            id == r.id
        IN  /\ out = NoOut
            /\ BagCardinality(inflight) < MaxInflight
            /\ inflight' = IF a.admit THEN inflight (+) SetToBag({r})
                           ELSE inflight
            /\ out' = IF a.admit THEN NoOut
                      ELSE Respond("middleware", method, [method |-> method, id |-> id],
                                   [w |-> a.w, panicked |-> FALSE], a.cause)
            /\ UNCHANGED <<accounts, nextID, usedNumbers, now, clockSteps, issued,
                           transfers, credited>>

\* the handler behind the middleware
RunHandler ==
    \E r \in BagToSet(inflight), ok \in BOOLEAN :
        LET h == handleAccountById(accounts, r, ok)
            m == makeHandleFunc(h)
        IN  /\ out = NoOut
            /\ accounts' = h.db
            /\ inflight' = inflight (-) SetToBag({r})
            /\ out' = Respond("handler", r.method, [method |-> r.method, id |-> r.id],
                              m, h.err)
            /\ credited' = Kept(credited, h.db)
            /\ UNCHANGED <<nextID, usedNumbers, now, clockSteps, issued, transfers>>

\* every endpoint, within one tick of the clock
Next ==
    \/ Login
    \/ ListAccounts
    \/ CreateAccountRequest
    \/ TransferRequest
    \/ Authorize
    \/ RunHandler
    \/ Deliver

Spec == Init /\ [][Next]_vars

\* login and the protected route as time passes
NextAuth ==
    \/ Tick
    \/ Login
    \/ Authorize
    \/ RunHandler
    \/ Deliver

SpecAuth == InitPopulated /\ [][NextAuth]_vars

\* transfers in flight at the same time
NextTransfer ==
    \/ TransferArrive
    \/ TransferExec
    \/ Deliver

SpecTransfer == InitPopulated /\ [][NextTransfer]_vars

(***************************************************************************)
(* The claims.                                                             *)
(***************************************************************************)
QueryFailed == "pq: query failed"

PathId(o) == getID(o.req.id).id

\* C1: a POST /transfer {to_account: N, amount: A} that the database runs
\* answers 200 and adds exactly A to the balance of the account numbered N
\* when there is one, and answers 404 and changes no balance when there is
\* none.
C1_TransferCreditsOr404 ==
    [][(out'.op = "transfer" /\ out'.req.decodes /\ out'.cause # QueryFailed) =>
        LET N == out'.req.to_account
            A == out'.req.amount
            hit == {a \in accounts : a.number = N}
        IN  IF hit # {}
            THEN /\ out'.status = StatusOK
                 /\ \A a \in hit : \E b \in accounts' :
                        /\ b.id = a.id
                        /\ b.balance * AmountScale = a.balance * AmountScale + A
                 /\ accounts \ hit \subseteq accounts'
            ELSE /\ out'.status = StatusNotFound
                 /\ accounts' = accounts]_vars

\* C2: a DELETE /accounts/{id} with a valid token, which the database runs,
\* answers 404 when no account has the id; for the id of a stored account
\* its response carries the id and the account is gone from the table.
C2_DeleteReturnsIdOr404 ==
    [][(out'.op = "DELETE" /\ out'.cause # QueryFailed) =>
        /\ (out'.stage = "middleware" /\ out'.cause = "account not found")
              => out'.status = StatusNotFound
        /\ (out'.stage = "handler" /\ ~(\E a \in accounts : a.id = PathId(out')))
              => out'.status = StatusNotFound
        /\ (out'.stage = "handler" /\ (\E a \in accounts : a.id = PathId(out')))
              => /\ out'.body = <<[deleted |-> PathId(out')]>>
                 /\ ~(\E a \in accounts' : a.id = PathId(out'))]_vars

Hashes == {GenerateFromPassword(p).hash : p \in Passwords}

LeaksHash(v) ==
    \/ "encrypted_password" \in DOMAIN v
    \/ "error" \in DOMAIN v /\ v.error \in Hashes
    \/ "number" \in DOMAIN v /\ v.number \in Hashes
    \/ "accounts" \in DOMAIN v
         /\ \E a \in v.accounts :
              "encrypted_password" \in DOMAIN a \/ a.number \in Hashes

\* C5: no JSON value of any response has the account's hashed password in
\* it, as a field or as the text of another field.
C5_HashNeverInResponse ==
    \A i \in DOMAIN out.body : ~LeaksHash(out.body[i])

C5_Witness ==
    /\ out.op = "list"
    /\ out.status = StatusOK
    /\ \E a \in out.body[1].accounts : a.balance # 0

\* C3: the handler behind /accounts/{id} is called only for a request
\* whose token the server signed and whose exp is not reached, whose path
\* id parses, and for which, at the middleware's lookup, an account with
\* that id is stored whose number is the token's accountNumber; any other
\* request is answered 403 by the middleware, which calls no handler and
\* changes nothing, and the handler runs for no other request.
C3_HandlerOnlyIfAuthorized ==
    [][/\ \A r \in BagToSet(inflight') :
            CopiesIn(r, inflight') > CopiesIn(r, inflight) =>
                /\ r.token \in Signed
                /\ Unix(now) < r.token.exp
                /\ r.id \in {ToString(n) : n \in 0 .. MaxAccounts + 1}
                /\ \E a \in accounts : /\ ToString(a.id) = r.id
                                       /\ a.number = r.token.accountNumber
       /\ (out'.stage = "middleware") =>
            /\ out'.status = StatusForbidden
            /\ inflight' = inflight
            /\ accounts' = accounts
       /\ (out'.stage = "handler" /\ out'.op \in {"GET", "DELETE"}) =>
            \E r \in BagToSet(inflight) :
                /\ r.method = out'.op
                /\ r.id = out'.req.id
                /\ inflight' = inflight (-) SetToBag({r})]_vars

C3_Witness ==
    /\ now > 0
    /\ \E r \in BagToSet(inflight) : r.method = "DELETE"

TokenCauses ==
    {"token contains an invalid number of segments", "unexpected signing method",
     "Token is expired", "signature is invalid"}

AccountCauses ==
    {"invalid id", "account not found", "query failed", "number mismatch"}

C6_ValidUntilIssuePlusMinute ==
    \A i \in issued :
        /\ now < i.at + Minute => validateJWT(i.token, now).valid
        /\ now > i.at + Minute => ~validateJWT(i.token, now).valid

\* C6 as amended: a token that login issued at time t is accepted exactly
\* at the times whose Unix second is before the Unix second of t + 1 minute
\* (its exp claim); so it is rejected at every time from t + 1 minute on,
\* and accepted at every time up to one second before that.
C6_ValidWhileSecondBeforeExp ==
    \A i \in issued :
        /\ validateJWT(i.token, now).valid <=> Unix(now) < Unix(i.at + Minute)
        /\ now >= i.at + Minute => ~validateJWT(i.token, now).valid
        /\ (now >= i.at /\ now + TicksPerSecond <= i.at + Minute)
              => validateJWT(i.token, now).valid

C6_Witness ==
    \E i \in issued : now > i.at + Minute /\ ~validateJWT(i.token, now).valid

\* C7 as stated: GET /accounts/{id} answers 200 with the account when the
\* handler runs and the account is stored and read, and 404 when no account
\* has the id.
C7_GetAccountOr404 ==
    (out.op = "GET" /\ out.cause # QueryFailed) =>
        /\ (out.stage = "handler" /\ (\E a \in accounts : a.id = PathId(out)))
              => /\ out.status = StatusOK
                 /\ out.body = <<MarshalAccount(Row(accounts, PathId(out)))>>
        /\ (out.stage = "middleware" /\ out.cause = "account not found")
              => out.status = StatusNotFound
        /\ (out.stage = "handler" /\ ~(\E a \in accounts : a.id = PathId(out)))
              => out.status = StatusNotFound

\* C7 as amended: GET /accounts/{id} answers 200 with the account when the
\* handler runs and the account is stored and read; when no account has the
\* id it answers 403 from the middleware, or 400 from the handler when the
\* account went after the middleware's lookup; it never answers 404, and a
\* 200 always carries the stored account of that id.
C7_GetAccountOr403 ==
    out.op = "GET" =>
        /\ out.status \in {StatusOK, StatusBadRequest, StatusForbidden}
        /\ (out.stage = "handler" /\ out.cause # QueryFailed
              /\ (\E a \in accounts : a.id = PathId(out)))
              => out.status = StatusOK
        /\ out.status = StatusOK
              => /\ out.stage = "handler"
                 /\ \E a \in accounts : /\ ToString(a.id) = out.req.id
                                        /\ out.body = <<MarshalAccount(a)>>
        /\ (out.stage = "middleware" /\ out.cause = "account not found")
              => out.status = StatusForbidden
        /\ (out.stage = "handler" /\ ~(\E a \in accounts : a.id = PathId(out)))
              => out.status = StatusBadRequest

C7_Witness ==
    /\ out.op = "GET"
    /\ out.status = StatusOK
    /\ Cardinality(accounts) = MaxAccounts

\* C8: POST /login answers 200 with {number, token} only when an account
\* with the number is stored and the password matches its hash; when the
\* password does not match, the answer is 403 with an error message and no
\* token.
C8_LoginOr403 ==
    (out.op = "login" /\ out.req.decodes /\ out.cause # QueryFailed) =>
        LET hit == {a \in accounts : a.number = out.req.number}
        IN  /\ out.status = StatusOK =>
                 /\ \E a \in hit : ValidatePassword(a, out.req.password)
                 /\ DOMAIN out.body[1] = {"number", "token"}
            /\ (hit # {} /\ \A a \in hit : ~ValidatePassword(a, out.req.password))
                 => /\ out.status = StatusForbidden
                    /\ Len(out.body) = 1
                    /\ DOMAIN out.body[1] = {"error"}

\* C9: a request whose database query fails is answered, not dropped: the
\* store returns the error, the accounts are as before, and the client gets
\* one JSON value {error: message}.
C9_QueryFailureIsReported ==
    [][(out'.cause \in {QueryFailed, "query failed",
                        "pq: invalid input syntax for type integer"}) =>
        /\ ~out'.panicked
        /\ accounts' = accounts
        /\ Len(out'.body) = 1
        /\ DOMAIN out'.body[1] = {"error"}]_vars

UniqueNumbers ==
    \A a, b \in accounts : a.number = b.number => a = b

\* C10: no two stored accounts have the same number, and no step changes
\* the number of an account that is stored before and after it.
C10_NumberUniqueAndImmutable ==
    /\ UniqueNumbers
    /\ [][/\ UniqueNumbers'
          /\ \A a \in accounts, b \in accounts' :
                a.id = b.id => a.number = b.number]_vars

C10_Witness ==
    /\ Cardinality(accounts) = MaxAccounts
    /\ out.op = "transfer"
    /\ out.status = StatusOK
    /\ nextID > MaxAccounts

\* C11: with any transfers in flight at the same time, in any order of
\* their statements, the balance of every account is the balance it was
\* created with, 0, plus the sum of the amounts of the transfers to its
\* number that answered 200; so it is when the last of them has answered.
C11_BalanceIsSumOfAnswered ==
    \A a \in accounts : a.balance * AmountScale = credited[a.number]

\* a transfer to n1 has answered 200 after an earlier one did, while
\* another transfer to n1, which arrived before its statement ran, is still
\* in flight
C11_Witness ==
    /\ out.op = "transfer"
    /\ out.status = StatusOK
    /\ out.req.to_account = "n1"
    /\ out.req.amount = -AmountScale
    /\ credited["n1"] = 0
    /\ \E r \in BagToSet(transfers) : r.to_account = "n1"

\* C12: of the DELETE /accounts/{id} requests with a valid token that are
\* in flight for one id, which the database runs, at most one is answered
\* with success: a success response carries the deleted id and is given
\* for an account that was stored and is removed by that step, and no id
\* is given to an account twice; every other request is answered 403 or
\* 404; and no DELETE removes an account of another id.
C12_DeletedAtMostOnce ==
    [][/\ (out'.op = "DELETE" /\ out'.cause \notin {QueryFailed, "query failed"}) =>
            LET id == PathId(out')
                hit == {a \in accounts : a.id = id}
            IN  /\ {a \in accounts : a.id # id} \subseteq accounts'
                /\ accounts' \subseteq accounts
                /\ \/ /\ out'.status \in {StatusForbidden, StatusNotFound}
                      /\ accounts' = accounts
                   \/ /\ out'.status \in {StatusOK, StatusNoContent}
                      /\ out'.body = <<[deleted |-> id]>>
                      /\ hit # {}
                      /\ accounts' = accounts \ hit
       /\ \A a \in accounts' :
            (\A b \in accounts : b.id # a.id) => (a.id >= nextID /\ a.id < nextID')
       /\ \A a \in accounts : a.id < nextID]_vars

====
